---------------------------- MODULE Spec2Model ----------------------------
(***************************************************************************)
(* A model of bioblend's HistoryClient                                      *)
(* (bioblend/galaxy/histories/__init__.py) and ToolShedClient              *)
(* (bioblend/toolshed/repositories/__init__.py).  One client performs one  *)
(* call at a time against a remote server whose answers are an input.  For *)
(* export_history and download_dataset the server is a sequence of         *)
(* responses (script), the n-th request of a call is answered by the n-th  *)
(* element, and the last element is repeated for every later request; for  *)
(* the other methods it is what the server holds when the call is made     *)
(* (remote).                                                               *)
(*                                                                         *)
(* nreq, nsleep, ndl and elapsed observe the call: the number of status    *)
(* requests, of sleeps, of download requests, and the seconds slept.  They *)
(* stop counting at MaxCount and MaxClock.                                 *)
(***************************************************************************)
EXTENDS Integers, Sequences, FiniteSets, TLC

VARIABLES
    op,         \* the method being executed, "idle" between calls
    pc,         \* position inside the method
    wait,       \* export_history: wait; download_dataset: wait_for_completion
    maxwait,    \* download_dataset: maxwait
    interval,   \* poll interval of _block_until_dataset_ready
    file_path,  \* download_dataset: file_path ("None" or a path)
    script,     \* the server's answers to this call's status requests
    nreq,       \* requests issued by this call, downloads apart
    nsleep,     \* sleeps performed by this call
    ndl,        \* download requests issued by this call
    elapsed,    \* seconds slept since the call began
    r,          \* the last response a wait loop received
    dataset,    \* download_dataset: local dataset, the snapshot of line 302
    outcome,    \* "none" while running, "return", or the exception raised
    result,     \* the value returned
    written,    \* chunks written to the opened file or to outf
    client,     \* the attributes of the client objects (self.*)
    args,       \* the other arguments of the call
    remote,     \* what the server holds for this call
    fh          \* update_repository: the attached file, "none" before it

vars == <<op, pc, wait, maxwait, interval, file_path, script, nreq, nsleep,
          ndl, elapsed, r, dataset, outcome, result, written, client, args,
          remote, fh>>

---------------------------------------------------------------------------
(* Bounds of the model. *)

\* Longest server script.
MaxLen == 3
\* Longest list of histories or of datasets the server returns.
MaxHist == 3
\* Largest number of datasets in one state of a history.
MaxDatasets == 2
\* Largest maxwait a caller passes.
MaxWait == 2
\* Largest poll interval.
MaxInterval == 2
\* The counters stop here: MaxCount stands for "MaxCount or more".
MaxCount == MaxLen + 2
\* The clock stops here, past every wait budget.
MaxClock == MaxWait + MaxInterval + 1

SeqsUpTo(S, n) == UNION {[1..k -> S] : k \in 1..n}

Count(n) == IF n < MaxCount THEN n + 1 ELSE MaxCount

Advance(t, d) == IF t + d < MaxClock THEN t + d ELSE MaxClock

---------------------------------------------------------------------------
(* Python name resolution in the histories module. *)

\* The names bound in the module's global scope by its imports and its one
\* class statement, and the built-in exceptions it names.
BoundNames ==
    {"bioblend", "Client", "os", "re", "shutil", "shlex", "urlparse",
     "urllib2", "time", "HistoryClient", "ValueError", "KeyError",
     "IndexError"}

\* `raise name(...)`: evaluating an unbound global name raises NameError
\* before the raise statement gets its exception.
Raise(name) == IF name \in BoundNames THEN name ELSE "NameError"

---------------------------------------------------------------------------
(* The client objects. *)

\* HistoryClient.__init__ and ToolShedClient.__init__: self.module, and the
\* instance handed to Client.__init__.
ConstructedClients ==
    [histories |-> [module |-> "histories", gi |-> "galaxy_instance"],
     repositories |-> [module |-> "repositories",
                       gi |-> "toolshed_instance"]]

\* a method keeping what it received in an attribute of self
ClientCaches(c, value) ==
    [c EXCEPT !.histories = [module |-> "histories",
                             gi |-> "galaxy_instance",
                             cache |-> value]]

\* The client objects after a request of the base class (Client._get,
\* _post, _put, _delete, _raw_get, gi.make_get_request): nothing of the
\* exchange is kept.
ClientRequest(c) == c

\* The client objects after a method has made its request and received
\* value: no method of the two classes assigns an attribute of self.
ClientAfter(c, value) == ClientRequest(c)

\* The arguments a call was given, as far as a method looks at them; the
\* defaults when it was given none.
NoArgs ==
    [history_id |-> "None", name |-> "None", contents |-> FALSE,
     types |-> "None", description |-> "complete"]

---------------------------------------------------------------------------
(* The server's answers. *)

\* download_url values: a path with a last segment, a bare segment, and a
\* path ending in a slash.
Urls == { <<"/", "h", "/", "j">>, <<"j">>, <<"/", "h", "/">> }

\* r.json(): the empty value, a dict without download_url, a dict with one.
Bodies ==
    {[tag |-> "empty", url |-> <<>>], [tag |-> "nourl", url |-> <<>>]}
      \cup {[tag |-> "url", url |-> u] : u \in Urls}

NoBody == [tag |-> "empty", url |-> <<>>]

\* Client._put raised instead of returning a response.
PutFailure == [kind |-> "raise", status |-> 0, body |-> NoBody]

NoResponse == [kind |-> "none", status |-> 0, body |-> NoBody]

ExportResponses ==
    {[kind |-> "response", status |-> s, body |-> b] :
        s \in {200, 202}, b \in Bodies} \cup {PutFailure}

\* Dataset states the server reports: ready, failed, still running.
DatasetStates == {"ok", "error", "running"}

\* show_dataset raised instead of returning a snapshot.
ShowFailure == [kind |-> "raise", state |-> "none", has_url |-> FALSE]

NoDataset == [kind |-> "none", state |-> "none", has_url |-> FALSE]

\* What show_dataset returns: the dataset's state, with or without a
\* download_url key.
Snapshots ==
    {[kind |-> "response", state |-> s, has_url |-> TRUE] :
        s \in DatasetStates}
      \cup {[kind |-> "response", state |-> "ok", has_url |-> FALSE],
            ShowFailure}

\* The response to the download request: the chunks iter_content yields, or
\* a failed request.
ChunkStreams ==
    { <<>>, <<"c1">>, <<"c1", "c2">>, <<"c1", "", "c2">> }

RawResponses ==
    {[kind |-> "response", chunks |-> c] : c \in ChunkStreams}
      \cup {[kind |-> "raise", chunks |-> <<>>]}

MaxWaits == -1..MaxWait

Intervals == -1..MaxInterval

FilePaths == {"None", "dir"}

\* The answer to the next status request of the call.
NextAnswer == script[IF nreq < Len(script) THEN nreq + 1 ELSE Len(script)]

---------------------------------------------------------------------------
(* export_history *)

\* line 445: contents['download_url'].rsplit('/', 1)[-1]
LastSlash(u) ==
    IF \E i \in 1..Len(u) : u[i] = "/"
    THEN CHOOSE i \in 1..Len(u) :
            u[i] = "/" /\ \A j \in (i + 1)..Len(u) : u[j] # "/"
    ELSE 0

RSplitLast(u) == SubSeq(u, LastSlash(u) + 1, Len(u))

\* and/or slip in the break condition
ExportBreaksSlip(w, resp) == ~w /\ resp.status = 200

\* the wait argument left out of the break condition
ExportBreaksIgnoresWait(w, resp) == resp.status = 200

\* line 440: if not wait or r.status_code == 200: break
ExportBreaks(w, resp) == ~w \/ resp.status = 200

\* a failed request taken for "not ready yet"
ExportStepSwallow(w, resp) ==
    IF resp.kind = "raise" THEN "sleep"
    ELSE IF ExportBreaks(w, resp) THEN "break"
    ELSE "sleep"

\* lines 438-442: one iteration of the loop, given what Client._put did
ExportStep(w, resp) ==
    IF resp.kind = "raise" THEN "raise"
    ELSE IF ExportBreaks(w, resp) THEN "break"
    ELSE "sleep"

\* lines 443-448: the outcome and the jeha_id computed from the last response
JehaOutcome(resp) ==
    IF resp.body.tag = "nourl" THEN Raise("KeyError") ELSE "return"

JehaId(resp) ==
    IF resp.body.tag = "url" THEN RSplitLast(resp.body.url) ELSE <<>>

---------------------------------------------------------------------------
(* _block_until_dataset_ready: the bounded poller, called at line 300 and  *)
(* defined outside this module.  It is the await_condition of the design:  *)
(* fetch; fail on a failed state; return on success; time out when the     *)
(* elapsed time exceeds the budget; else sleep the interval and retry.     *)

PendingStates == {"running"}

IsSuccess(snap) == snap.state = "ok"

IsFailure(snap) == snap.state \notin ({"ok"} \cup PendingStates)

\* no check of the interval
AwaitConfigNoCheck(iv) == "poll"

\* a non-positive interval is rejected before any fetch
AwaitConfig(iv) == IF iv <= 0 THEN "ConfigurationError" ELSE "poll"

\* the budget checked first
AwaitVerdictBudgetFirst(snap, el, mw) ==
    IF el > mw THEN "PollTimeout"
    ELSE IF IsFailure(snap) THEN "EntityFailedState"
    ELSE IF IsSuccess(snap) THEN "success"
    ELSE "sleep"

\* the order of the checks after a fetch: failure, success, budget
AwaitVerdict(snap, el, mw) ==
    IF IsFailure(snap) THEN "EntityFailedState"
    ELSE IF IsSuccess(snap) THEN "success"
    ELSE IF el > mw THEN "PollTimeout"
    ELSE "sleep"

---------------------------------------------------------------------------
(* download_dataset *)

\* lines 303-304
ReadyCheck(snap) ==
    IF ~(snap.state = "ok") THEN Raise("DatasetStateException") ELSE "pass"

\* lines 310-313
UrlCheck(snap) == IF snap.has_url THEN "pass" ELSE Raise("KeyError")

\* lines 342-346: chunks are written until an empty one
RECURSIVE WriteChunks(_)
WriteChunks(chunks) ==
    IF chunks = <<>> \/ Head(chunks) = "" THEN <<>>
    ELSE <<Head(chunks)>> \o WriteChunks(Tail(chunks))

---------------------------------------------------------------------------
(* get_histories *)

Ids == {"h1", "h2"}

Names == {"a", "b"}

\* The history dicts of the server's list: their id and name.
HistoryDicts == [id : Ids, name : Names]

\* What Client._get returns at line 45.
HistoryLists == {<<>>} \cup SeqsUpTo(HistoryDicts, MaxHist)

\* no check of the arguments
ArgsCheckNone(hid, nm) == "pass"

\* lines 43-44
ArgsCheck(hid, nm) ==
    IF hid # "None" /\ nm # "None" THEN Raise("ValueError") ELSE "pass"

\* lines 47-48: next((_ for _ in histories if _['id'] == history_id), None)
FirstWithId(hs, hid) ==
    IF \E i \in 1..Len(hs) : hs[i].id = hid
    THEN << hs[CHOOSE i \in 1..Len(hs) :
                 hs[i].id = hid /\ \A j \in 1..(i - 1) : hs[j].id # hid] >>
    ELSE <<>>

\* only the first history of that name
WithNameFirst(hs, nm) ==
    IF \E i \in 1..Len(hs) : hs[i].name = nm
    THEN << hs[CHOOSE i \in 1..Len(hs) :
                 hs[i].name = nm /\ \A j \in 1..(i - 1) : hs[j].name # nm] >>
    ELSE <<>>

\* line 50: [_ for _ in histories if _['name'] == name]
RECURSIVE WithName(_, _)
WithName(hs, nm) ==
    IF hs = <<>> THEN <<>>
    ELSE (IF Head(hs).name = nm THEN <<Head(hs)>> ELSE <<>>)
            \o WithName(Tail(hs), nm)

\* lines 46-51
FilterHistories(hs, hid, nm) ==
    IF hid # "None" THEN FirstWithId(hs, hid)
    ELSE IF nm # "None" THEN WithName(hs, nm)
    ELSE hs

---------------------------------------------------------------------------
(* get_status *)

HistoryStates == {"ok", "running"}

\* The keys of state_details: Galaxy's dataset states, and a dict that
\* lacks the 'ok' key.
DetailKeySets == {{"ok", "running", "error"}, {"running", "error"}}

StateDetails == UNION {[K -> 0..MaxDatasets] : K \in DetailKeySets}

NoDetails == [k \in {} |-> 0]

\* What show_history returns, as far as get_status reads it.
HistoryStatuses ==
    {[state |-> s, has_details |-> TRUE, state_details |-> d] :
        s \in HistoryStates, d \in StateDetails}
      \cup {[state |-> s, has_details |-> FALSE, state_details |-> NoDetails] :
              s \in HistoryStates}

\* line 382: sum(history['state_details'].itervalues())
RECURSIVE SumOver(_, _)
SumOver(d, K) ==
    IF K = {} THEN 0
    ELSE LET k == CHOOSE x \in K : TRUE IN d[k] + SumOver(d, K \ {k})

TotalComplete(d) == SumOver(d, DOMAIN d)

\* the quotient taken before the product
PercentCompleteSlip(d) ==
    IF TotalComplete(d) > 0
    THEN 100 * (d["ok"] \div TotalComplete(d))
    ELSE 0

\* lines 383-386; the operands are non-negative ints, so / is \div
PercentComplete(d) ==
    IF TotalComplete(d) > 0
    THEN (100 * d["ok"]) \div TotalComplete(d)
    ELSE 0

\* line 384: history['state_details']['ok'] of a dict without that key
StatusOutcome(h) ==
    IF h.has_details /\ TotalComplete(h.state_details) > 0
         /\ "ok" \notin DOMAIN h.state_details
    THEN Raise("KeyError")
    ELSE "return"

\* lines 377-387: the dict that is returned
StatusDict(h) ==
    IF h.has_details
    THEN [state |-> h.state, state_details |-> h.state_details,
          percent_complete |-> PercentComplete(h.state_details)]
    ELSE [state |-> h.state]

---------------------------------------------------------------------------
(* download_history *)

\* The response of make_get_request: its status code and the chunks its
\* body yields, or a failed request.
ExportDownloads ==
    {[kind |-> "response", status |-> s, chunks |-> c] :
        s \in {200, 404}, c \in ChunkStreams}
      \cup {[kind |-> "raise", status |-> 0, chunks |-> <<>>]}

\* no check of the status
StatusCheckNone(resp) == "pass"

\* line 473: r.raise_for_status() raises for the 4xx and 5xx codes
StatusCheck(resp) ==
    IF resp.status >= 400 THEN "HTTPError" ELSE "pass"

---------------------------------------------------------------------------
(* update_repository *)

\* the handle left open when the request raised
FileAfterPostOnSuccess(f, answered) == IF answered THEN "closed" ELSE f

\* lines 284-285: finally: payload["file"].close()
FileAfterPost(f, answered) == "closed"

---------------------------------------------------------------------------
(* The methods that make their one request and return. *)

\* HistoryClient and ToolShedClient methods whose body has a single
\* Client._get, _post, _put or _delete call and no loop.
SingleRequestMethods ==
    {"create_history", "show_history", "delete_dataset",
     "delete_dataset_collection", "show_dataset", "show_dataset_collection",
     "show_dataset_provenance", "update_history", "update_dataset",
     "update_dataset_collection", "create_history_tag",
     "upload_dataset_from_library", "create_dataset_collection",
     "delete_history", "undelete_history", "get_current_history",
     "get_most_recently_used_history", "get_repositories",
     "show_repository", "get_ordered_installable_revisions",
     "get_repository_revision_install_info", "repository_revisions",
     "show_repository_revision", "get_categories", "create_repository"}

\* types: absent, a list of type names, a single string
TypesValues == {"None", "list", "str"}

\* collection_description: with or without the keys lines 252-254 read
Descriptions == {"complete", "incomplete"}

\* What a method does with its arguments before its request: line 71 calls
\* .join on types, which a list does not have; lines 252-254 index the
\* description.
BeforeRequest(m, a) ==
    IF m = "show_history" /\ a.contents /\ a.types = "list"
    THEN "AttributeError"
    ELSE IF m = "create_dataset_collection" /\ a.description = "incomplete"
    THEN "KeyError"
    ELSE "pass"

---------------------------------------------------------------------------
(* show_matching_datasets *)

\* What show_history(history_id, contents=True) returns: the id and name of
\* each dataset of the history.
ContentsLists == {<<>>} \cup SeqsUpTo(HistoryDicts, MaxHist)

\* every dataset taken, whatever its name
MatchingAll(contents, name_filter) == contents

\* lines 118-122: name_filter is None, or a plain string compiled with '$'
\* appended and matched from the start of the name
RECURSIVE Matching(_, _)
Matching(contents, name_filter) ==
    IF contents = <<>> THEN <<>>
    ELSE (IF name_filter = "None" \/ Head(contents).name = name_filter
          THEN <<Head(contents)>> ELSE <<>>)
            \o Matching(Tail(contents), name_filter)

Init ==
    /\ op = "idle"
    /\ pc = "idle"
    /\ wait = FALSE
    /\ maxwait = 0
    /\ interval = 0
    /\ file_path = "None"
    /\ script = <<>>
    /\ nreq = 0
    /\ nsleep = 0
    /\ ndl = 0
    /\ elapsed = 0
    /\ r = NoResponse
    /\ dataset = NoDataset
    /\ outcome = "none"
    /\ result = <<>>
    /\ written = <<>>
    /\ client = ConstructedClients
    /\ args = NoArgs
    /\ remote = <<>>
    /\ fh = "none"

\* export_history(history_id, ..., wait=w) is called
CallExportHistory ==
    /\ pc = "idle"
    /\ \E w \in BOOLEAN, s \in SeqsUpTo(ExportResponses, MaxLen) :
          /\ wait' = w
          /\ script' = s
    /\ op' = "export_history"
    /\ pc' = "ex_put"
    /\ UNCHANGED <<maxwait, interval, file_path, nreq, nsleep, ndl, elapsed,
                   r, dataset, outcome, result, written>>
    /\ UNCHANGED <<client, args, remote, fh>>

\* lines 439-441 and, when the loop is left, 443-448
ExportPut ==
    /\ pc = "ex_put"
    /\ nreq' = Count(nreq)
    /\ LET resp == NextAnswer
           step == ExportStep(wait, resp)
       IN  /\ r' = IF step = "raise" THEN r ELSE resp
           /\ pc' = IF step = "sleep" THEN "ex_sleep" ELSE "done"
           /\ outcome' = CASE step = "raise" -> "TransportError"
                           [] step = "break" -> JehaOutcome(resp)
                           [] OTHER -> outcome
           /\ result' = IF step = "break" /\ JehaOutcome(resp) = "return"
                        THEN JehaId(resp) ELSE result
    /\ UNCHANGED <<op, wait, maxwait, interval, file_path, script, nsleep,
                   ndl, elapsed, dataset, written>>
    /\ client' = ClientAfter(client, NextAnswer)
    /\ UNCHANGED <<args, remote, fh>>

\* line 442: time.sleep(1)
ExportSleep ==
    /\ pc = "ex_sleep"
    /\ nsleep' = Count(nsleep)
    /\ elapsed' = Advance(elapsed, 1)
    /\ pc' = "ex_put"
    /\ UNCHANGED <<op, wait, maxwait, interval, file_path, script, nreq,
                   ndl, r, dataset, outcome, result, written>>
    /\ UNCHANGED <<client, args, remote, fh>>

\* download_dataset(history_id, dataset_id, file_path=fp,
\*                  wait_for_completion=w, maxwait=mw) is called; lines 299-300
CallDownloadDataset ==
    /\ pc = "idle"
    /\ \E w \in BOOLEAN, fp \in FilePaths, s \in SeqsUpTo(Snapshots, MaxLen) :
          /\ wait' = w
          /\ file_path' = fp
          /\ script' = s
          /\ \E mw \in (IF w THEN MaxWaits ELSE {0}),
                iv \in (IF w THEN Intervals ELSE {0}) :
                /\ maxwait' = mw
                /\ interval' = iv
          /\ pc' = IF w THEN "await_start" ELSE "dd_show"
    /\ op' = "download_dataset"
    /\ UNCHANGED <<nreq, nsleep, ndl, elapsed, r, dataset, outcome, result,
                   written>>
    /\ UNCHANGED <<client, args, remote, fh>>

\* the poller validates its parameters
AwaitStart ==
    /\ pc = "await_start"
    /\ LET c == AwaitConfig(interval)
       IN  /\ pc' = IF c = "poll" THEN "await_fetch" ELSE "done"
           /\ outcome' = IF c = "poll" THEN outcome ELSE c
    /\ UNCHANGED <<op, wait, maxwait, interval, file_path, script, nreq,
                   nsleep, ndl, elapsed, r, dataset, result, written>>
    /\ UNCHANGED <<client, args, remote, fh>>

\* one poll: the fetch and the checks on its snapshot
AwaitPoll ==
    /\ pc = "await_fetch"
    /\ nreq' = Count(nreq)
    /\ LET resp == NextAnswer
           v == IF resp.kind = "raise" THEN "TransportError"
                ELSE AwaitVerdict(resp, elapsed, maxwait)
       IN  /\ r' = IF resp.kind = "raise" THEN r ELSE resp
           /\ pc' = CASE v = "success" -> "dd_show"
                      [] v = "sleep" -> "await_sleep"
                      [] OTHER -> "done"
           /\ outcome' = IF v \in {"success", "sleep"} THEN outcome ELSE v
    /\ UNCHANGED <<op, wait, maxwait, interval, file_path, script, nsleep,
                   ndl, elapsed, dataset, result, written>>
    /\ UNCHANGED <<client, args, remote, fh>>

\* the sleep between two polls
AwaitSleep ==
    /\ pc = "await_sleep"
    /\ nsleep' = Count(nsleep)
    /\ elapsed' = Advance(elapsed, interval)
    /\ pc' = "await_fetch"
    /\ UNCHANGED <<op, wait, maxwait, interval, file_path, script, nreq,
                   ndl, r, dataset, outcome, result, written>>
    /\ UNCHANGED <<client, args, remote, fh>>

\* lines 302-304: show_dataset and the check of its state
DatasetShow ==
    /\ pc = "dd_show"
    /\ nreq' = Count(nreq)
    /\ LET resp == NextAnswer
           v == IF resp.kind = "raise" THEN "TransportError"
                ELSE ReadyCheck(resp)
       IN  /\ dataset' = IF resp.kind = "raise" THEN dataset ELSE resp
           /\ pc' = IF v = "pass" THEN "dd_get" ELSE "done"
           /\ outcome' = IF v = "pass" THEN outcome ELSE v
    /\ UNCHANGED <<op, wait, maxwait, interval, file_path, script, nsleep,
                   ndl, elapsed, r, result, written>>
    /\ client' = ClientAfter(client, NextAnswer)
    /\ UNCHANGED <<args, remote, fh>>

\* lines 306-346: the download request and what is done with its response
DatasetGet ==
    /\ pc = "dd_get"
    /\ pc' = "done"
    /\ IF UrlCheck(dataset) # "pass"
       THEN /\ outcome' = UrlCheck(dataset)
            /\ UNCHANGED <<ndl, result, written>>
       ELSE \E g \in RawResponses :
            /\ ndl' = Count(ndl)
            /\ outcome' = IF g.kind = "raise" THEN "TransportError"
                          ELSE "return"
            /\ result' = IF g.kind = "response" /\ file_path = "None"
                         THEN g.chunks ELSE result
            /\ written' = IF g.kind = "response" /\ file_path # "None"
                          THEN WriteChunks(g.chunks) ELSE written
    /\ UNCHANGED <<op, wait, maxwait, interval, file_path, script, nreq,
                   nsleep, elapsed, r, dataset>>
    /\ client' = ClientAfter(client, dataset)
    /\ UNCHANGED <<args, remote, fh>>

\* get_histories(history_id=hid, name=nm) is called
CallGetHistories ==
    /\ pc = "idle"
    /\ \E hid \in {"None"} \cup Ids, nm \in {"None"} \cup Names,
          hs \in HistoryLists :
          /\ args' = [NoArgs EXCEPT !.history_id = hid, !.name = nm]
          /\ remote' = hs
    /\ op' = "get_histories"
    /\ pc' = "gh_body"
    /\ UNCHANGED <<wait, maxwait, interval, file_path, script, nreq, nsleep,
                   ndl, elapsed, r, dataset, outcome, result, written,
                   client, fh>>

\* lines 43-51: the check of the arguments, the request, the filter
GetHistories ==
    /\ pc = "gh_body"
    /\ pc' = "done"
    /\ IF ArgsCheck(args.history_id, args.name) # "pass"
       THEN /\ outcome' = ArgsCheck(args.history_id, args.name)
            /\ UNCHANGED <<nreq, result, client>>
       ELSE /\ nreq' = Count(nreq)
            /\ \E answered \in BOOLEAN :
                  /\ outcome' = IF answered THEN "return"
                                ELSE "TransportError"
                  /\ result' = IF answered
                               THEN FilterHistories(remote, args.history_id,
                                                    args.name)
                               ELSE result
            /\ client' = ClientAfter(client, remote)
    /\ UNCHANGED <<op, wait, maxwait, interval, file_path, script, nsleep,
                   ndl, elapsed, r, dataset, written, args, remote, fh>>

\* get_status(history_id) is called
CallGetStatus ==
    /\ pc = "idle"
    /\ \E h \in HistoryStatuses : remote' = <<h>>
    /\ op' = "get_status"
    /\ pc' = "gs_body"
    /\ UNCHANGED <<wait, maxwait, interval, file_path, script, nreq, nsleep,
                   ndl, elapsed, r, dataset, outcome, result, written,
                   client, args, fh>>

\* lines 377-387
GetStatus ==
    /\ pc = "gs_body"
    /\ pc' = "done"
    /\ nreq' = Count(nreq)
    /\ \E answered \in BOOLEAN :
          /\ outcome' = IF answered THEN StatusOutcome(remote[1])
                        ELSE "TransportError"
          /\ result' = IF answered /\ StatusOutcome(remote[1]) = "return"
                       THEN StatusDict(remote[1])
                       ELSE result
    /\ client' = ClientAfter(client, remote)
    /\ UNCHANGED <<op, wait, maxwait, interval, file_path, script, nsleep,
                   ndl, elapsed, r, dataset, written, args, remote, fh>>

\* download_history(history_id, jeha_id, outf) is called
CallDownloadHistory ==
    /\ pc = "idle"
    /\ \E g \in ExportDownloads : remote' = <<g>>
    /\ op' = "download_history"
    /\ pc' = "dh_get"
    /\ UNCHANGED <<wait, maxwait, interval, file_path, script, nreq, nsleep,
                   ndl, elapsed, r, dataset, outcome, result, written,
                   client, args, fh>>

\* lines 472-473: the request and the check of its status
DownloadHistoryGet ==
    /\ pc = "dh_get"
    /\ ndl' = Count(ndl)
    /\ IF remote[1].kind = "raise"
       THEN pc' = "done" /\ outcome' = "TransportError"
       ELSE IF StatusCheck(remote[1]) # "pass"
       THEN pc' = "done" /\ outcome' = StatusCheck(remote[1])
       ELSE pc' = "dh_write" /\ UNCHANGED outcome
    /\ client' = ClientAfter(client, remote)
    /\ UNCHANGED <<op, wait, maxwait, interval, file_path, script, nreq,
                   nsleep, elapsed, r, dataset, result, written, args,
                   remote, fh>>

\* lines 474-475: one turn of the loop over r.iter_content, which may fail
\* while the body is read
DownloadHistoryWrite ==
    /\ pc = "dh_write"
    /\ \/ /\ Len(written) < Len(remote[1].chunks)
          /\ written' = Append(written, remote[1].chunks[Len(written) + 1])
          /\ UNCHANGED <<pc, outcome>>
       \/ /\ Len(written) < Len(remote[1].chunks)
          /\ pc' = "done"
          /\ outcome' = "TransportError"
          /\ UNCHANGED written
       \/ /\ Len(written) = Len(remote[1].chunks)
          /\ pc' = "done"
          /\ outcome' = "return"
          /\ UNCHANGED written
    /\ UNCHANGED <<op, wait, maxwait, interval, file_path, script, nreq,
                   nsleep, ndl, elapsed, r, dataset, result, client, args,
                   remote, fh>>

\* update_repository(id, tar_ball_path) is called
CallUpdateRepository ==
    /\ pc = "idle"
    /\ op' = "update_repository"
    /\ pc' = "ur_open"
    /\ UNCHANGED <<wait, maxwait, interval, file_path, script, nreq, nsleep,
                   ndl, elapsed, r, dataset, outcome, result, written,
                   client, args, remote, fh>>

\* line 281: attach_file(tar_ball_path) opens the file or raises
UpdateRepositoryOpen ==
    /\ pc = "ur_open"
    /\ \/ fh' = "open" /\ pc' = "ur_post" /\ UNCHANGED outcome
       \/ fh' = fh /\ pc' = "done" /\ outcome' = "IOError"
    /\ UNCHANGED <<op, wait, maxwait, interval, file_path, script, nreq,
                   nsleep, ndl, elapsed, r, dataset, result, written, client,
                   args, remote>>

\* line 283: Client._post returns or raises; the finally clause is next
UpdateRepositoryPost ==
    /\ pc = "ur_post"
    /\ nreq' = Count(nreq)
    /\ \E answered \in BOOLEAN :
          /\ outcome' = IF answered THEN "return" ELSE "TransportError"
          /\ pc' = IF answered THEN "ur_finally_return"
                   ELSE "ur_finally_raise"
    /\ client' = ClientAfter(client, remote)
    /\ UNCHANGED <<op, wait, maxwait, interval, file_path, script, nsleep,
                   ndl, elapsed, r, dataset, result, written, args, remote,
                   fh>>

\* lines 284-285
UpdateRepositoryFinally ==
    /\ pc \in {"ur_finally_return", "ur_finally_raise"}
    /\ fh' = FileAfterPost(fh, pc = "ur_finally_return")
    /\ pc' = "done"
    /\ UNCHANGED <<op, wait, maxwait, interval, file_path, script, nreq,
                   nsleep, ndl, elapsed, r, dataset, outcome, result,
                   written, client, args, remote>>

\* one of the single-request methods is called
CallSingleRequest ==
    /\ pc = "idle"
    /\ \E m \in SingleRequestMethods :
          /\ op' = m
          /\ \E c \in BOOLEAN, ty \in TypesValues, d \in Descriptions :
                /\ m # "show_history" => (~c /\ ty = "None")
                /\ (m = "show_history" /\ ~c) => ty = "None"
                /\ m # "create_dataset_collection" => d = "complete"
                /\ args' = [NoArgs EXCEPT !.contents = c, !.types = ty,
                                          !.description = d]
    /\ pc' = "sr_body"
    /\ UNCHANGED <<wait, maxwait, interval, file_path, script, nreq, nsleep,
                   ndl, elapsed, r, dataset, outcome, result, written,
                   client, remote, fh>>

\* the body of a single-request method
SingleRequest ==
    /\ pc = "sr_body"
    /\ pc' = "done"
    /\ IF BeforeRequest(op, args) # "pass"
       THEN /\ outcome' = BeforeRequest(op, args)
            /\ UNCHANGED <<nreq, client>>
       ELSE /\ nreq' = Count(nreq)
            /\ \E answered \in BOOLEAN :
                  outcome' = IF answered THEN "return" ELSE "TransportError"
            /\ client' = ClientAfter(client, remote)
    /\ UNCHANGED <<op, wait, maxwait, interval, file_path, script, nsleep,
                   ndl, elapsed, r, dataset, result, written, args, remote,
                   fh>>

\* show_matching_datasets(history_id, name_filter=f) is called
CallShowMatchingDatasets ==
    /\ pc = "idle"
    /\ \E f \in {"None"} \cup Names, cs \in ContentsLists :
          /\ args' = [NoArgs EXCEPT !.name = f]
          /\ remote' = cs
    /\ op' = "show_matching_datasets"
    /\ pc' = "smd_history"
    /\ UNCHANGED <<wait, maxwait, interval, file_path, script, nreq, nsleep,
                   ndl, elapsed, r, dataset, outcome, result, written,
                   client, fh>>

\* line 121: self.show_history(history_id, contents=True)
MatchingShowHistory ==
    /\ pc = "smd_history"
    /\ nreq' = Count(nreq)
    /\ \E answered \in BOOLEAN :
          IF answered
          THEN pc' = "smd_dataset" /\ UNCHANGED outcome
          ELSE pc' = "done" /\ outcome' = "TransportError"
    /\ client' = ClientAfter(client, remote)
    /\ UNCHANGED <<op, wait, maxwait, interval, file_path, script, nsleep,
                   ndl, elapsed, r, dataset, result, written, args, remote,
                   fh>>

\* lines 120-122: one turn of the comprehension, self.show_dataset for the
\* next dataset that matches, or its end
MatchingShowDataset ==
    /\ pc = "smd_dataset"
    /\ LET todo == Matching(remote, args.name)
       IN  IF Len(result) < Len(todo)
           THEN /\ nreq' = Count(nreq)
                /\ \E answered \in BOOLEAN :
                      IF answered
                      THEN /\ result' = Append(result, todo[Len(result) + 1])
                           /\ UNCHANGED <<pc, outcome>>
                      ELSE /\ pc' = "done"
                           /\ outcome' = "TransportError"
                           /\ UNCHANGED result
                /\ client' = ClientAfter(client, todo[Len(result) + 1])
           ELSE /\ pc' = "done"
                /\ outcome' = "return"
                /\ UNCHANGED <<nreq, result, client>>
    /\ UNCHANGED <<op, wait, maxwait, interval, file_path, script, nsleep,
                   ndl, elapsed, r, dataset, written, args, remote, fh>>

\* the call is over: the method's locals are gone
Return ==
    /\ pc = "done"
    /\ op' = "idle"
    /\ pc' = "idle"
    /\ wait' = FALSE
    /\ maxwait' = 0
    /\ interval' = 0
    /\ file_path' = "None"
    /\ script' = <<>>
    /\ nreq' = 0
    /\ nsleep' = 0
    /\ ndl' = 0
    /\ elapsed' = 0
    /\ r' = NoResponse
    /\ dataset' = NoDataset
    /\ outcome' = "none"
    /\ result' = <<>>
    /\ written' = <<>>
    /\ args' = NoArgs
    /\ remote' = <<>>
    /\ fh' = "none"
    /\ UNCHANGED client

Next ==
    \/ CallExportHistory
    \/ ExportPut
    \/ ExportSleep
    \/ CallDownloadDataset
    \/ AwaitStart
    \/ AwaitPoll
    \/ AwaitSleep
    \/ DatasetShow
    \/ DatasetGet
    \/ CallGetHistories
    \/ GetHistories
    \/ CallGetStatus
    \/ GetStatus
    \/ CallDownloadHistory
    \/ DownloadHistoryGet
    \/ DownloadHistoryWrite
    \/ CallUpdateRepository
    \/ UpdateRepositoryOpen
    \/ UpdateRepositoryPost
    \/ UpdateRepositoryFinally
    \/ CallSingleRequest
    \/ SingleRequest
    \/ CallShowMatchingDatasets
    \/ MatchingShowHistory
    \/ MatchingShowDataset
    \/ Return

Spec == Init /\ [][Next]_vars

\* Every step of a call that can be taken is taken: the client is one
\* thread that runs its method to the end.
FairSpec == Spec /\ WF_vars(Next)

---------------------------------------------------------------------------
(* What the properties below speak about. *)

\* The first index of s whose element satisfies P, 0 when there is none.
FirstIdx(s, P(_)) ==
    IF \E i \in 1..Len(s) : P(s[i])
    THEN CHOOSE i \in 1..Len(s) : P(s[i]) /\ \A j \in 1..(i - 1) : ~P(s[j])
    ELSE 0

ExportOk(x) == x.kind = "response" /\ x.status = 200

Raised(x) == x.kind = "raise"

ExportEnds(x) == ExportOk(x) \/ Raised(x)

\* The poll of a waiting export_history on which 200 first arrives, every
\* earlier request having been answered: 0 when there is no such poll.
FirstSuccessPoll ==
    IF FirstIdx(script, ExportOk) = FirstIdx(script, ExportEnds)
    THEN FirstIdx(script, ExportOk) ELSE 0

\* The request of an export_history that fails, no earlier one having ended
\* the call: 0 when there is none.
FirstFailedRequest ==
    IF FirstIdx(script, Raised) = FirstIdx(script, ExportEnds)
    THEN FirstIdx(script, Raised) ELSE 0

ExportWaiting == op = "export_history" /\ wait

DatasetWaiting == op = "download_dataset" /\ wait

---------------------------------------------------------------------------
(* Claims *)

\* C1: when 200 first arrives on the k-th poll of export_history(wait=True),
\* the call ends after exactly k requests and k-1 sleeps, with the k-th
\* response as its last response and the jeha_id computed from it; until
\* then it has issued at most k requests and k-1 sleeps.  With k = 1: one
\* request and no sleep.
C1_ExportPollsUntilSuccess ==
    (ExportWaiting /\ FirstSuccessPoll > 0) =>
        LET k == FirstSuccessPoll
        IN  /\ nreq <= k
            /\ nsleep <= k - 1
            /\ pc = "ex_sleep" => nreq < k
            /\ pc = "done" =>
                  /\ nreq = k
                  /\ nsleep = k - 1
                  /\ r = script[k]
                  /\ outcome \in {"return", "KeyError"}
                  /\ outcome = "return" =>
                        result = IF script[k].body.tag = "url"
                                 THEN RSplitLast(script[k].body.url)
                                 ELSE <<>>

C1_Witness ==
    /\ ExportWaiting
    /\ pc = "done"
    /\ FirstSuccessPoll >= 2
    /\ nreq = FirstSuccessPoll
    /\ outcome = "return"

\* The failure condition of a download_dataset call holds on its first
\* status response: the poller's failure predicate when it waits, the check
\* of line 303 when it does not.
FailureOnFirstResponse ==
    /\ op = "download_dataset"
    /\ script[1].kind = "response"
    /\ IF wait THEN interval > 0 /\ IsFailure(script[1])
               ELSE script[1].state # "ok"

\* C2: when the failure condition holds on the first status response, the
\* call raises the failed-state error (EntityFailedState or
\* DatasetStateException) after exactly one status request and no sleep.
C2_FailureOnFirstPoll ==
    (FailureOnFirstResponse /\ pc = "done") =>
        /\ outcome \in {"EntityFailedState", "DatasetStateException"}
        /\ nreq = 1
        /\ nsleep = 0

\* C3: a wait whose condition has not held raises PollTimeout at the first
\* poll after which the elapsed time exceeds the wait budget, and not
\* before: it never goes to sleep with the budget exceeded.  The budget of
\* the dataset wait is maxwait; export_history takes none, so the statement
\* is made for the largest budget of the model.
C3_PollTimeoutAtDeadline ==
    /\ pc = "await_sleep" => elapsed <= maxwait
    /\ outcome = "PollTimeout" => elapsed > maxwait
    /\ (ExportWaiting /\ pc = "ex_sleep") => elapsed <= MaxWait

\* C4: export_history(wait=True) terminates whatever the server answers.
C4_ExportTerminates == ExportWaiting ~> (pc = "done")

\* C5: a request of export_history that raises ends the call with that
\* error: no request and no sleep follow it, and the error is no timeout and
\* no failed-state error.  The call sleeps only after a response that says
\* "not ready yet" (a status other than 200), and only when waiting.
C5_TransportErrorPropagates ==
    /\ (op = "export_history" /\ FirstFailedRequest > 0) =>
          LET k == FirstFailedRequest
          IN  /\ nreq <= k
              /\ nsleep <= k - 1
              /\ nreq = k => (pc = "done" /\ outcome = "TransportError"
                              /\ nsleep = IF wait THEN k - 1 ELSE 0)
    /\ pc = "ex_sleep" =>
          (wait /\ r.kind = "response" /\ r.status # 200)

C5_Witness ==
    /\ ExportWaiting
    /\ pc = "done"
    /\ outcome = "TransportError"
    /\ FirstFailedRequest >= 2
    /\ nreq = FirstFailedRequest

\* C6: the dataset wait never reports a timeout before its first status
\* request, whatever maxwait is; called with maxwait <= 0 and answered with
\* a ready dataset on the first poll, it returns that snapshot after one
\* request and no sleep instead of timing out.
C6_ZeroBudgetStillPolls ==
    DatasetWaiting =>
        /\ outcome = "PollTimeout" => nreq >= 1
        /\ (/\ maxwait <= 0
            /\ interval > 0
            /\ script[1].kind = "response"
            /\ IsSuccess(script[1])
            /\ pc \notin {"await_start", "await_fetch"}) =>
               /\ outcome # "PollTimeout"
               /\ r = script[1]
               /\ nsleep = 0
               /\ pc = "dd_show" => nreq = 1

C6_Witness ==
    /\ DatasetWaiting
    /\ maxwait <= 0
    /\ IsSuccess(script[1])
    /\ pc = "dd_show"
    /\ r = script[1]

\* C7: the dataset wait called with a poll interval <= 0 raises
\* ConfigurationError without having issued a status request.
C7_BadIntervalRejected ==
    (DatasetWaiting /\ interval <= 0 /\ pc # "await_start") =>
        /\ pc = "done"
        /\ outcome = "ConfigurationError"
        /\ nreq = 0
        /\ nsleep = 0

C7_Witness ==
    /\ DatasetWaiting
    /\ interval <= 0
    /\ pc = "done"
    /\ outcome = "ConfigurationError"

\* C8: a download_dataset wait that has polled ends in exactly one of:
\* success (the dataset passed the check of line 303), the failed-state
\* error, the timeout, or the error of a failed request; and when the last
\* snapshot of the poller is a failed one, the failed-state error is what
\* is raised, whatever the elapsed time.
C8_WaitOutcomes ==
    (DatasetWaiting /\ pc = "done" /\ nreq >= 1) =>
        /\ dataset.state # "ok" =>
              outcome \in {"EntityFailedState", "DatasetStateException",
                           "PollTimeout", "TransportError"}
        /\ (r.kind = "response" /\ IsFailure(r)) =>
              outcome = "EntityFailedState"

\* C9: when the state read by show_dataset at line 302 is not "ok",
\* download_dataset raises DatasetStateException, having issued no download
\* request and written nothing; a download request is issued only after a
\* state "ok" was read.
C9_DownloadOnlyReady ==
    op = "download_dataset" =>
        /\ (dataset.kind = "response" /\ dataset.state # "ok") =>
              /\ pc = "done"
              /\ outcome = "DatasetStateException"
              /\ ndl = 0
              /\ written = <<>>
        /\ ndl > 0 => dataset.state = "ok"

\* C10: export_history(wait=True) never returns the empty jeha_id.
C10_WaitReturnsJehaId ==
    (ExportWaiting /\ pc = "done" /\ outcome = "return") => result # <<>>

\* seg is what follows the last "/" of u: all of u when u has none.
IsLastSegment(seg, u) ==
    \E i \in 0..Len(u) :
        /\ seg = SubSeq(u, i + 1, Len(u))
        /\ \A j \in 1..Len(seg) : seg[j] # "/"
        /\ i = 0 \/ u[i] = "/"

\* C11: export_history(wait=False) issues exactly one export request and
\* never sleeps, whatever the status code of the response; it returns the
\* last path segment of the response's download_url when the body has one,
\* and the empty string when the body is empty.
C11_ExportNoWait ==
    (op = "export_history" /\ ~wait) =>
        /\ nsleep = 0
        /\ pc # "ex_sleep"
        /\ nreq <= 1
        /\ pc = "done" =>
              /\ nreq = 1
              /\ (script[1].kind = "response"
                    /\ script[1].body.tag = "empty") =>
                    (outcome = "return" /\ result = <<>>)
              /\ (script[1].kind = "response"
                    /\ script[1].body.tag = "url") =>
                    (outcome = "return"
                       /\ IsLastSegment(result, script[1].body.url))

C11_Witness ==
    /\ op = "export_history"
    /\ ~wait
    /\ pc = "done"
    /\ script[1].kind = "response"
    /\ script[1].status = 202
    /\ script[1].body.tag = "url"
    /\ result # <<>>

\* C12: get_histories called with both history_id and name raises
\* ValueError without having issued a request.
C12_BothArgumentsRejected ==
    (op = "get_histories" /\ args.history_id # "None" /\ args.name # "None"
       /\ pc # "gh_body") =>
        /\ pc = "done"
        /\ outcome = "ValueError"
        /\ nreq = 0

C12_Witness ==
    /\ op = "get_histories"
    /\ args.history_id # "None"
    /\ args.name # "None"
    /\ remote # <<>>
    /\ outcome = "ValueError"

\* The k-th smallest element of the set S of positions.
Kth(S, k) == CHOOSE i \in S : Cardinality({j \in S : j <= i}) = k

\* res is hs restricted to some of its positions, in the order of hs.
IsSubList(res, hs) ==
    \E S \in SUBSET (1..Len(hs)) :
        /\ Len(res) = Cardinality(S)
        /\ \A k \in 1..Len(res) : res[k] = hs[Kth(S, k)]

\* C13: get_histories returns a sub-list of the server's list in server
\* order: with name, all the histories of that name and no other; with
\* history_id, at most one history, of that id, and none only when no
\* history has the id; with neither, the list itself.
C13_GetHistoriesFilter ==
    (op = "get_histories" /\ pc = "done" /\ outcome = "return") =>
        /\ IsSubList(result, remote)
        /\ (args.history_id = "None" /\ args.name # "None") =>
              /\ \A k \in 1..Len(result) : result[k].name = args.name
              /\ Len(result) =
                    Cardinality({i \in 1..Len(remote) :
                                    remote[i].name = args.name})
        /\ args.history_id # "None" =>
              /\ Len(result) <= 1
              /\ \A k \in 1..Len(result) : result[k].id = args.history_id
              /\ Len(result) = 0 <=>
                    ~ \E i \in 1..Len(remote) :
                         remote[i].id = args.history_id
        /\ (args.history_id = "None" /\ args.name = "None") =>
              result = remote

C13_Witness ==
    /\ op = "get_histories"
    /\ pc = "done"
    /\ outcome = "return"
    /\ args.name # "None"
    /\ Len(result) = 2
    /\ Len(remote) = 3
    /\ remote[2].name # args.name

\* C17: get_status returns the history's state; with state_details of
\* non-negative counts it also returns them and percent_complete, the
\* integer quotient of 100*ok by the sum of the counts, 0 when the sum is 0,
\* always within 0..100; without state_details the result has neither key.
C17_StatusPercent ==
    (op = "get_status" /\ pc = "done") =>
        LET h == remote[1]
            d == h.state_details
            total == d["ok"] + d["running"] + d["error"]
            p == result.percent_complete
        IN  /\ outcome = "return" => result.state = h.state
            /\ ~h.has_details =>
                  /\ outcome \in {"return", "TransportError"}
                  /\ outcome = "return" => DOMAIN result = {"state"}
            /\ (h.has_details /\ "ok" \in DOMAIN d) =>
                  /\ outcome \in {"return", "TransportError"}
                  /\ outcome = "return" =>
                        /\ DOMAIN result =
                              {"state", "state_details", "percent_complete"}
                        /\ result.state_details = d
                        /\ p \in 0..100
                        /\ total = 0 => p = 0
                        /\ total > 0 =>
                              /\ p * total <= 100 * d["ok"]
                              /\ 100 * d["ok"] < (p + 1) * total

C17_Witness ==
    /\ op = "get_status"
    /\ pc = "done"
    /\ outcome = "return"
    /\ remote[1].has_details
    /\ "ok" \in DOMAIN remote[1].state_details
    /\ remote[1].state_details["ok"] = 1
    /\ remote[1].state_details["running"] = 1
    /\ remote[1].state_details["error"] = 0
    /\ result.percent_complete = 50

IsPrefix(s, t) == Len(s) <= Len(t) /\ \A i \in 1..Len(s) : s[i] = t[i]

\* C18: download_history checks the status before it writes: on an HTTP
\* error response it raises with nothing written to outf; otherwise what
\* has been written is at every moment the chunks received so far, in
\* order and once each, and all of them when the call returns.
C18_DownloadChecksStatus ==
    op = "download_history" =>
        LET g == remote[1]
        IN  /\ IsPrefix(written, g.chunks)
            /\ pc = "dh_write" => (ndl = 1 /\ g.kind = "response")
            /\ (g.kind = "response" /\ g.status >= 400 /\ pc # "dh_get") =>
                  /\ pc = "done"
                  /\ outcome = "HTTPError"
                  /\ written = <<>>
            /\ g.kind = "raise" => written = <<>>
            /\ (pc = "done" /\ outcome = "return") =>
                  /\ g.kind = "response"
                  /\ g.status < 400
                  /\ written = g.chunks

C18_Witness ==
    /\ op = "download_history"
    /\ pc = "done"
    /\ remote[1].kind = "response"
    /\ remote[1].status = 404
    /\ Len(remote[1].chunks) = 3
    /\ outcome = "HTTPError"
    /\ written = <<>>

\* C19: update_repository closes the tar-ball file on every path after it
\* was opened, when the upload request returns and when it raises, and
\* never before the request is made.
C19_FileClosedAfterUpload ==
    op = "update_repository" =>
        /\ fh = "closed" => nreq = 1
        /\ pc \in {"ur_post", "ur_finally_return", "ur_finally_raise"} =>
              fh = "open"
        /\ (pc = "done" /\ outcome \in {"return", "TransportError"}) =>
              (nreq = 1 /\ fh = "closed")
        /\ (pc = "done" /\ outcome = "IOError") => (nreq = 0 /\ fh = "none")

C19_Witness ==
    /\ op = "update_repository"
    /\ pc = "done"
    /\ outcome = "TransportError"
    /\ nreq = 1
    /\ fh = "closed"

\* A call of a method that does not wait for completion.
NonWaiting ==
    /\ op # "idle"
    /\ ~(op \in {"export_history", "download_dataset"} /\ wait)

\* The HTTP requests of the call so far.
Requests == nreq + ndl

\* The datasets of the history whose name the filter accepts.
MatchingCount ==
    Cardinality({i \in 1..Len(remote) :
                    args.name = "None" \/ remote[i].name = args.name})

\* C14 as stated: a non-waiting call that returns has issued exactly one
\* HTTP request, show_matching_datasets and download_dataset without
\* waiting included.
C14_OneRequestPerCall ==
    (NonWaiting /\ pc = "done" /\ outcome = "return") => Requests = 1

\* C14 amended: a non-waiting call other than show_matching_datasets and
\* download_dataset issues at most one HTTP request, exactly one when it
\* returns and none when it raises before its request;
\* show_matching_datasets has issued 1 + n requests when it returns, n the
\* number of matching datasets; download_dataset without waiting has issued
\* two, show_dataset and the download.
C14_RequestsPerCall ==
    NonWaiting =>
        /\ op \notin {"show_matching_datasets", "download_dataset"} =>
              /\ Requests <= 1
              /\ (pc = "done" /\ outcome = "return") => Requests = 1
              /\ (pc = "done"
                    /\ outcome \in {"ValueError", "AttributeError",
                                    "IOError"}) => Requests = 0
              /\ (pc = "done" /\ op = "create_dataset_collection"
                    /\ outcome = "KeyError") => Requests = 0
        /\ op = "show_matching_datasets" =>
              /\ ndl = 0
              /\ nreq <= 1 + MatchingCount
              /\ (pc = "done" /\ outcome = "return") =>
                    nreq = 1 + MatchingCount
        /\ op = "download_dataset" =>
              /\ nreq <= 1
              /\ ndl <= 1
              /\ (pc = "done" /\ outcome = "return") =>
                    (nreq = 1 /\ ndl = 1)

C14_Witness ==
    /\ op = "show_matching_datasets"
    /\ pc = "done"
    /\ outcome = "return"
    /\ args.name # "None"
    /\ Len(remote) = 3
    /\ MatchingCount = 2
    /\ nreq = 3

\* C15: no operation changes the client's local state: after any sequence
\* of calls, returned or raised, the client objects hold what the
\* constructors set, the module name and the instance, and nothing of a
\* response.
C15_ClientStateless == client = ConstructedClients

C15_Witness ==
    /\ op = "get_histories"
    /\ pc = "done"
    /\ outcome = "return"
    /\ nreq = 1
    /\ Len(result) = 2
    /\ client = ConstructedClients

---------------------------------------------------------------------------
(* What does hold where C4 fails: export_history(wait=True) terminates     *)
(* when some request of the call is answered 200 or raises.                *)

ExportTerminatesWhenAnswered ==
    (ExportWaiting /\ \E i \in 1..Len(script) : ExportEnds(script[i]))
        ~> (pc = "done")

---------------------------------------------------------------------------
(* What does hold of download_dataset where C2, C8 and C9 fail: the error  *)
(* raised at line 304 is NameError.                                        *)

DatasetNotReadyRaises ==
    op = "download_dataset" =>
        /\ (dataset.kind = "response" /\ dataset.state # "ok") =>
              /\ pc = "done"
              /\ outcome = "NameError"
              /\ ndl = 0
              /\ written = <<>>
        /\ ndl > 0 => dataset.state = "ok"
        /\ (FailureOnFirstResponse /\ pc = "done") =>
              /\ outcome \in {"EntityFailedState", "NameError"}
              /\ nreq = 1
              /\ nsleep = 0

=============================================================================
